---------------------------- MODULE Spec2Model ----------------------------
(***************************************************************************)
(* Model of the Turing-machine simulator of src/src/main.rs: the engine    *)
(* (struct TuringMachine and its methods) and the window procedure that    *)
(* drives it (wndproc: button commands, the timer, the trackbar, paint).   *)
(*                                                                         *)
(* Text is a sequence of one-character strings, so that trim() is computed *)
(* rather than assumed.  Vec indices are 0-based in the source; a Vec is a *)
(* TLA+ sequence here, so element i of the source is element i+1.          *)
(***************************************************************************)
EXTENDS Integers, Sequences, FiniteSets, TLC

VARIABLES
    tape,               \* TuringMachine.tape: Vec<Symbol>
    tape_offset,        \* TuringMachine.tape_offset: i64
    head_pos,           \* TuringMachine.head_pos: i64
    current_state,      \* TuringMachine.current_state: String
    start_state,        \* TuringMachine.start_state
    accept_state,       \* TuringMachine.accept_state
    reject_state,       \* TuringMachine.reject_state
    transitions,        \* TuringMachine.transitions: Vec<Transition>
    state_breakpoints,  \* TuringMachine.state_breakpoints: HashSet<String>
    step_count,         \* TuringMachine.step_count: u64
    status,             \* TuringMachine.status: RunStatus
    timer_speed_ms,     \* TuringMachine.timer_speed_ms: u32
    timer,              \* the window's ID_TIMER: 0 = not set, else its interval
    sel,                \* the list view's selected row, -1 = none
    op,                 \* history: the last event handled / method called
    ret,                \* history: what the last call of step() returned
    at,                 \* history: the source line the last event got to
    written             \* history: position -> symbol of the last write_tape there

engine_vars == <<tape, tape_offset, head_pos, current_state, start_state,
                 accept_state, reject_state, transitions, state_breakpoints,
                 step_count, status, timer_speed_ms>>

vars == <<tape, tape_offset, head_pos, current_state, start_state,
          accept_state, reject_state, transitions, state_breakpoints,
          step_count, status, timer_speed_ms, timer, sel, op, ret, at, written>>

-----------------------------------------------------------------------------
(* Bounds of the model. *)

\* step() is not called once step_count has reached this (u64 in the source).
MaxSteps == 3
\* Add is not taken once the table holds this many rows (Vec in the source).
MaxTransitions == 2
\* The longest input string put on the tape before a run.
MaxInput == 4
\* write_tape is not called on its own once this many positions are written.
MaxWrites == 1

-----------------------------------------------------------------------------
(* Text and trim(). *)

q0 == <<"q", "0">>
q1 == <<"q", "1">>
qa == <<"q", "a">>
qr == <<"q", "r">>

IsSpace(c) == c = " "

RECURSIVE trim_start(_)
trim_start(s) ==
    IF s = <<>> THEN s
    ELSE IF IsSpace(Head(s)) THEN trim_start(Tail(s)) ELSE s

RECURSIVE trim_end(_)
trim_end(s) ==
    IF s = <<>> THEN s
    ELSE IF IsSpace(s[Len(s)]) THEN trim_end(SubSeq(s, 1, Len(s) - 1)) ELSE s

trim(s) == trim_end(trim_start(s))

-----------------------------------------------------------------------------
(* The engine: struct TuringMachine as a record, its methods as operators. *)

Symbol == {"Zero", "One", "Blank"}
Direction == {"Left", "Right"}
RunStatus == {"Idle", "Running", "Accepted", "Rejected"}

None == [some |-> FALSE]
Some(x) == [some |-> TRUE, val |-> x]

\* vec![Symbol::Blank; n]
Blanks(n) == [i \in 1..n |-> "Blank"]

InitialTapeLen == 101
InitialTapeOffset == -50

new ==
    [tape |-> Blanks(InitialTapeLen),
     tape_offset |-> InitialTapeOffset,
     head_pos |-> 0,
     current_state |-> q0,
     start_state |-> q0,
     accept_state |-> qa,
     reject_state |-> qr,
     transitions |-> <<>>,
     state_breakpoints |-> {},
     step_count |-> 0,
     status |-> "Idle",
     timer_speed_ms |-> 500]

\* The 0-based Vec index of absolute position pos.
tape_index(m, pos) == pos - m.tape_offset

ensure_tape_drop_old(m, pos) ==
    LET idx == pos - m.tape_offset IN
    IF idx < 0
    THEN LET extra == -idx IN
         [m EXCEPT !.tape = Blanks(extra + Len(m.tape)),
                   !.tape_offset = m.tape_offset - extra]
    ELSE IF idx >= Len(m.tape)
         THEN [m EXCEPT !.tape = m.tape \o Blanks(idx + 1 - Len(m.tape))]
         ELSE m

ensure_tape_append_wrong_end(m, pos) ==
    LET idx == pos - m.tape_offset IN
    IF idx < 0
    THEN LET extra == -idx IN
         [m EXCEPT !.tape = m.tape \o Blanks(extra),
                   !.tape_offset = m.tape_offset - extra]
    ELSE IF idx >= Len(m.tape)
         THEN [m EXCEPT !.tape = m.tape \o Blanks(idx + 1 - Len(m.tape))]
         ELSE m

ensure_tape_one_more(m, pos) ==
    LET idx == pos - m.tape_offset IN
    IF idx < 0
    THEN LET extra == -idx IN
         [m EXCEPT !.tape = Blanks(extra) \o m.tape,
                   !.tape_offset = m.tape_offset - extra]
    ELSE IF idx >= Len(m.tape)
         THEN [m EXCEPT !.tape = m.tape \o Blanks(idx + 2 - Len(m.tape))]
         ELSE m

ensure_tape_always_resizes(m, pos) ==
    LET idx == pos - m.tape_offset IN
    IF idx < 0
    THEN LET extra == -idx IN
         [m EXCEPT !.tape = Blanks(extra) \o m.tape,
                   !.tape_offset = m.tape_offset - extra]
    ELSE [m EXCEPT !.tape = SubSeq(m.tape \o Blanks(idx + 1 - Len(m.tape)),
                                   1, idx + 1)]

ensure_tape(m, pos) ==
    LET idx == pos - m.tape_offset IN
    IF idx < 0
    THEN LET extra == -idx IN
         [m EXCEPT !.tape = Blanks(extra) \o m.tape,
                   !.tape_offset = m.tape_offset - extra]
    ELSE IF idx >= Len(m.tape)
         THEN [m EXCEPT !.tape = m.tape \o Blanks(idx + 1 - Len(m.tape))]
         ELSE m

\* read_tape takes &mut self: it returns the machine it leaves and the symbol.
read_tape(m) ==
    LET m1 == ensure_tape(m, m.head_pos) IN
    [m |-> m1, sym |-> m1.tape[tape_index(m1, m1.head_pos) + 1]]

write_tape(m, sym) ==
    LET m1 == ensure_tape(m, m.head_pos)
        idx == tape_index(m1, m1.head_pos)
    IN [m1 EXCEPT !.tape[idx + 1] = sym]

\* Iterator::position: the first matching index, 0-based.
find_transition(m, state, sym) ==
    LET hits == {i \in 1..Len(m.transitions) :
                    /\ m.transitions[i].current_state = state
                    /\ m.transitions[i].read_symbol = sym}
    IN IF hits = {} THEN None
       ELSE Some((CHOOSE i \in hits : \A j \in hits : i <= j) - 1)


\* Line 217: the terminal statuses, in which step() does nothing.
is_halted_accepted_only(m) == m.status = "Accepted"

is_halted(m) == m.status = "Accepted" \/ m.status = "Rejected"

\* Lines 231-238: the transition t is carried out.
apply_transition_no_count(m, t) ==
    LET m1 == write_tape(m, t.write_symbol)
        m2 == [m1 EXCEPT !.current_state = t.new_state]
    IN IF t.direction = "Left"
       THEN [m2 EXCEPT !.head_pos = m2.head_pos - 1]
       ELSE [m2 EXCEPT !.head_pos = m2.head_pos + 1]

apply_transition_write_after_move(m, t) ==
    LET m1 == [m EXCEPT !.current_state = t.new_state]
        m2 == IF t.direction = "Left"
              THEN [m1 EXCEPT !.head_pos = m1.head_pos - 1]
              ELSE [m1 EXCEPT !.head_pos = m1.head_pos + 1]
        m3 == write_tape(m2, t.write_symbol)
    IN [m3 EXCEPT !.step_count = m3.step_count + 1]

apply_transition_keep_symbol(m, t) ==
    LET m1 == ensure_tape(m, m.head_pos)
        m2 == [m1 EXCEPT !.current_state = t.new_state]
        m3 == IF t.direction = "Left"
              THEN [m2 EXCEPT !.head_pos = m2.head_pos - 1]
              ELSE [m2 EXCEPT !.head_pos = m2.head_pos + 1]
    IN [m3 EXCEPT !.step_count = m3.step_count + 1]

apply_transition(m, t) ==
    LET m1 == write_tape(m, t.write_symbol)
        m2 == [m1 EXCEPT !.current_state = t.new_state]
        m3 == IF t.direction = "Left"
              THEN [m2 EXCEPT !.head_pos = m2.head_pos - 1]
              ELSE [m2 EXCEPT !.head_pos = m2.head_pos + 1]
    IN [m3 EXCEPT !.step_count = m3.step_count + 1]

\* Line 251: the pause condition, on the transition carried out and the
\* state the machine is in after it.
breakpoint_hit_state_only(m, t) == m.current_state \in m.state_breakpoints

breakpoint_hit_state_left(m, t) ==
    t.has_breakpoint \/ t.current_state \in m.state_breakpoints

breakpoint_hit(m, t) ==
    t.has_breakpoint \/ m.current_state \in m.state_breakpoints

\* Lines 240-254: what step() returns after carrying out t.
after_transition_pause_first(m, t) ==
    IF breakpoint_hit(m, t)
    THEN [m |-> m, ret |-> FALSE, at |-> "L252"]
    ELSE IF m.current_state = m.accept_state
    THEN [m |-> [m EXCEPT !.status = "Accepted"], ret |-> FALSE, at |-> "L243"]
    ELSE IF m.current_state = m.reject_state
    THEN [m |-> [m EXCEPT !.status = "Rejected"], ret |-> FALSE, at |-> "L247"]
    ELSE [m |-> m, ret |-> TRUE, at |-> "L254"]

after_transition_continues_on_reject(m, t) ==
    IF m.current_state = m.accept_state
    THEN [m |-> [m EXCEPT !.status = "Accepted"], ret |-> FALSE, at |-> "L243"]
    ELSE IF m.current_state = m.reject_state
    THEN [m |-> [m EXCEPT !.status = "Rejected"], ret |-> TRUE, at |-> "L247"]
    ELSE IF breakpoint_hit(m, t)
    THEN [m |-> m, ret |-> FALSE, at |-> "L252"]
    ELSE [m |-> m, ret |-> TRUE, at |-> "L254"]

after_transition(m, t) ==
    IF m.current_state = m.accept_state
    THEN [m |-> [m EXCEPT !.status = "Accepted"], ret |-> FALSE, at |-> "L243"]
    ELSE IF m.current_state = m.reject_state
    THEN [m |-> [m EXCEPT !.status = "Rejected"], ret |-> FALSE, at |-> "L247"]
    ELSE IF breakpoint_hit(m, t)
    THEN [m |-> m, ret |-> FALSE, at |-> "L252"]
    ELSE [m |-> m, ret |-> TRUE, at |-> "L254"]

\* Lines 255-259: no transition for (current state, symbol read).
no_transition_counted(m) ==
    [m |-> [m EXCEPT !.status = "Rejected", !.step_count = m.step_count + 1],
     ret |-> FALSE, at |-> "L258"]

no_transition_clears_state_breakpoints(m) ==
    [m |-> [m EXCEPT !.status = "Rejected", !.state_breakpoints = {}],
     ret |-> FALSE, at |-> "L258"]

no_transition(m) ==
    [m |-> [m EXCEPT !.status = "Rejected"], ret |-> FALSE, at |-> "L258"]

\* step(&mut self) -> bool.  The result holds the machine step() leaves, the
\* value returned, the line returned from and the write_tape call made, if any.
step(m) ==
    IF is_halted(m)
    THEN [m |-> m, ret |-> FALSE, at |-> "L218", wrote |-> None]
    ELSE IF m.current_state = m.accept_state
    THEN [m |-> [m EXCEPT !.status = "Accepted"], ret |-> FALSE, at |-> "L222",
          wrote |-> None]
    ELSE IF m.current_state = m.reject_state
    THEN [m |-> [m EXCEPT !.status = "Rejected"], ret |-> FALSE, at |-> "L226",
          wrote |-> None]
    ELSE
    LET r == read_tape(m)
        found == find_transition(r.m, r.m.current_state, r.sym)
    IN IF found.some
       THEN LET t == r.m.transitions[found.val + 1]
                a == after_transition(apply_transition(r.m, t), t)
            IN [m |-> a.m, ret |-> a.ret, at |-> a.at,
                wrote |-> Some([pos |-> r.m.head_pos, sym |-> t.write_symbol])]
       ELSE LET n == no_transition(r.m)
            IN [m |-> n.m, ret |-> n.ret, at |-> n.at, wrote |-> None]

reset_keep_head(m) ==
    [m EXCEPT !.tape = Blanks(InitialTapeLen),
              !.tape_offset = InitialTapeOffset,
              !.current_state = m.start_state,
              !.step_count = 0,
              !.status = "Idle"]

reset_keep_tape(m) ==
    [m EXCEPT !.head_pos = 0,
              !.current_state = m.start_state,
              !.step_count = 0,
              !.status = "Idle"]

reset(m) ==
    [m EXCEPT !.tape = Blanks(InitialTapeLen),
              !.tape_offset = InitialTapeOffset,
              !.head_pos = 0,
              !.current_state = m.start_state,
              !.step_count = 0,
              !.status = "Idle"]

-----------------------------------------------------------------------------
(* The window: the machine with the timer and the list view's selection.   *)
(* A handler is an operator from the window (and the user's input) to the  *)
(* window it leaves, with the step() call it made, if any.                 *)

TM ==
    [tape |-> tape,
     tape_offset |-> tape_offset,
     head_pos |-> head_pos,
     current_state |-> current_state,
     start_state |-> start_state,
     accept_state |-> accept_state,
     reject_state |-> reject_state,
     transitions |-> transitions,
     state_breakpoints |-> state_breakpoints,
     step_count |-> step_count,
     status |-> status,
     timer_speed_ms |-> timer_speed_ms]

W == [m |-> TM, timer |-> timer, sel |-> sel]

\* A handler's result: the window, and no call of step().
Quiet(w) ==
    [m |-> w.m, timer |-> w.timer, sel |-> w.sel,
     ret |-> FALSE, at |-> "none", wrote |-> None]

\* The same, having got as far as the source line called label.
At(w, label) ==
    [m |-> w.m, timer |-> w.timer, sel |-> w.sel,
     ret |-> FALSE, at |-> label, wrote |-> None]

\* A handler's result: the window, and the call of step() with result r.
Stepped(w, r) ==
    [m |-> w.m, timer |-> w.timer, sel |-> w.sel,
     ret |-> r.ret, at |-> r.at, wrote |-> r.wrote]

symbols == <<"Zero", "One", "Blank">>
dirs == <<"Left", "Right">>

\* ed: the editor's contents, [cur_state, new_state: text; read_idx,
\* write_idx, dir_idx: the combo boxes' CB_GETCURSEL].
read_transition_from_editor(ed) ==
    IF trim(ed.cur_state) = <<>> \/ trim(ed.new_state) = <<>>
    THEN None
    ELSE IF ed.read_idx < 0 \/ ed.write_idx < 0 \/ ed.dir_idx < 0
    THEN None
    ELSE Some([current_state |-> trim(ed.cur_state),
               read_symbol |-> symbols[ed.read_idx + 1],
               new_state |-> trim(ed.new_state),
               write_symbol |-> symbols[ed.write_idx + 1],
               direction |-> dirs[ed.dir_idx + 1],
               has_breakpoint |-> FALSE])

\* refresh_listview: LVM_DELETEALLITEMS, then one unselected row per
\* transition; no row is selected afterwards.
refresh_listview(w) == [w EXCEPT !.sel = -1]

\* ID_BTN_ADD
on_add_no_duplicate_check(w, ed) ==
    LET t == read_transition_from_editor(ed) IN
    IF t.some
    THEN At(refresh_listview([w EXCEPT !.m.transitions = Append(@, t.val)]),
            "L428")
    ELSE At(w, "L422")

on_add(w, ed) ==
    LET t == read_transition_from_editor(ed) IN
    IF t.some
    THEN IF ~find_transition(w.m, t.val.current_state, t.val.read_symbol).some
         THEN At(refresh_listview(
                     [w EXCEPT !.m.transitions = Append(@, t.val)]), "L428")
         ELSE At(w, "L424")
    ELSE At(w, "L422")

\* ID_BTN_UPDATE
on_update_keeps_breakpoint(w, ed) ==
    IF w.sel >= 0
    THEN LET t == read_transition_from_editor(ed) IN
         IF t.some
         THEN refresh_listview(
                  [w EXCEPT !.m.transitions[w.sel + 1] =
                      [t.val EXCEPT !.has_breakpoint =
                          w.m.transitions[w.sel + 1].has_breakpoint]])
         ELSE w
    ELSE w

on_update(w, ed) ==
    IF w.sel >= 0
    THEN LET t == read_transition_from_editor(ed) IN
         IF t.some
         THEN refresh_listview([w EXCEPT !.m.transitions[w.sel + 1] = t.val])
         ELSE w
    ELSE w

\* Vec::remove(i), i 0-based.
remove_last(v, i) == SubSeq(v, 1, Len(v) - 1)

remove(v, i) == SubSeq(v, 1, i) \o SubSeq(v, i + 2, Len(v))

\* ID_BTN_DELETE
on_delete(w) ==
    IF w.sel >= 0 /\ w.sel < Len(w.m.transitions)
    THEN refresh_listview([w EXCEPT !.m.transitions = remove(@, w.sel)])
    ELSE w

\* ID_BTN_TOGGLE_BP
on_toggle_bp(w) ==
    IF w.sel >= 0 /\ w.sel < Len(w.m.transitions)
    THEN refresh_listview(
             [w EXCEPT !.m.transitions[w.sel + 1].has_breakpoint = ~@])
    ELSE w

\* ID_BTN_ADD_STATE_BP; text: the contents of the state-breakpoint edit box.
on_add_state_bp_insert_only(w, text) ==
    LET state == trim(text) IN
    IF state # <<>>
    THEN [w EXCEPT !.m.state_breakpoints = @ \cup {state}]
    ELSE w

on_add_state_bp(w, text) ==
    LET state == trim(text) IN
    IF state # <<>>
    THEN IF state \in w.m.state_breakpoints
         THEN [w EXCEPT !.m.state_breakpoints = @ \ {state}]
         ELSE [w EXCEPT !.m.state_breakpoints = @ \cup {state}]
    ELSE w

\* ID_BTN_STEP
on_step(w) ==
    IF w.m.status = "Idle" \/ w.m.status = "Running"
    THEN LET r == step([w.m EXCEPT !.status = "Idle"])
         IN Stepped([w EXCEPT !.m = r.m, !.timer = 0], r)
    ELSE Quiet(w)

\* ID_BTN_RUN
on_run_unguarded(w) ==
    [w EXCEPT !.m.status = "Running", !.timer = w.m.timer_speed_ms]

on_run_clears_count(w) ==
    IF w.m.status # "Accepted" /\ w.m.status # "Rejected"
    THEN [w EXCEPT !.m.status = "Running", !.timer = w.m.timer_speed_ms,
                   !.m.step_count = 0]
    ELSE w

on_run(w) ==
    IF w.m.status # "Accepted" /\ w.m.status # "Rejected"
    THEN [w EXCEPT !.m.status = "Running", !.timer = w.m.timer_speed_ms]
    ELSE w

\* ID_BTN_STOP
on_stop_timer_only(w) == [w EXCEPT !.timer = 0]

on_stop(w) ==
    IF w.m.status = "Running"
    THEN [w EXCEPT !.timer = 0, !.m.status = "Idle"]
    ELSE [w EXCEPT !.timer = 0]

\* ID_BTN_RESET
on_reset(w) == [w EXCEPT !.timer = 0, !.m = reset(@)]

\* WM_TIMER with wparam == ID_TIMER
on_timer_always_idle(w) ==
    LET r == step(w.m) IN
    IF ~r.ret
    THEN Stepped([w EXCEPT !.timer = 0, !.m = [r.m EXCEPT !.status = "Idle"]],
                 r)
    ELSE Stepped([w EXCEPT !.m = r.m], r)

on_timer_stays_running(w) ==
    LET r == step(w.m) IN
    IF ~r.ret
    THEN Stepped([w EXCEPT !.timer = 0, !.m = r.m], r)
    ELSE Stepped([w EXCEPT !.m = r.m], r)

on_timer(w) ==
    LET r == step(w.m) IN
    IF ~r.ret
    THEN Stepped([w EXCEPT !.timer = 0,
                           !.m = IF r.m.status = "Running"
                                 THEN [r.m EXCEPT !.status = "Idle"]
                                 ELSE r.m], r)
    ELSE Stepped([w EXCEPT !.m = r.m], r)

\* WM_HSCROLL from the speed trackbar; pos: the trackbar's TBM_GETPOS.
on_hscroll_always_restarts(w, pos) ==
    [w EXCEPT !.m.timer_speed_ms = pos, !.timer = pos]

on_hscroll(w, pos) ==
    IF w.m.status = "Running"
    THEN [w EXCEPT !.m.timer_speed_ms = pos, !.timer = pos]
    ELSE [w EXCEPT !.m.timer_speed_ms = pos]

num_cells == 28

\* WM_PAINT, lines 353-357: cells i..num_cells-1 of the tape view.  Each
\* cell is ensured, then read (an index past the Vec would panic) and drawn.
RECURSIVE paint_cells(_, _)
paint_cells(m, i) ==
    IF i >= num_cells THEN m
    ELSE LET half == num_cells \div 2
             tape_pos == m.head_pos - half + i
             m1 == ensure_tape(m, tape_pos)
             sym == m1.tape[tape_index(m1, tape_pos) + 1]
         IN IF sym \in Symbol THEN paint_cells(m1, i + 1) ELSE m1

on_paint_blanks_head_cell(w) ==
    [w EXCEPT !.m = write_tape(paint_cells(@, 0), "Blank")]

on_paint(w) == [w EXCEPT !.m = paint_cells(@, 0)]

-----------------------------------------------------------------------------
(* The user's inputs. *)

Ed(c, r, n, w, d) ==
    [cur_state |-> c, read_idx |-> r, new_state |-> n, write_idx |-> w,
     dir_idx |-> d]

\* What the editor may hold when Add or Update is pressed.  The first two
\* share their key; the last has no current state.
EditorInputs ==
    { Ed(<<" ", "q", "0">>, 2, <<"q", "1", " ">>, 1, 1),  \* (q0,_) -> (q1,1,R)
      Ed(q0, 2, qa, 2, 1),                                \* (q0,_) -> (qa,_,R)
      Ed(q1, 2, q0, 0, 0),                                \* (q1,_) -> (q0,0,L)
      Ed(q0, 1, qr, 0, 1),                                \* (q0,1) -> (qr,0,R)
      Ed(<<" ">>, 0, q0, 0, 0) }                          \* no current state

\* What the state-breakpoint edit box may hold when Add/Rm BP is pressed.
StateBpInputs == { <<" ", "q", "1">>, <<" ">> }

TrackbarMin == 50
TrackbarMax == 2000

\* Where the user may leave the trackbar's thumb (TBM_SETRANGE, line 936).
TrackbarPositions == {TrackbarMin, TrackbarMax}

\* The position the trackbar takes when asked for ms: TBM_SETRANGE has given
\* it the range TrackbarMin..TrackbarMax, and it keeps its thumb inside.
trackbar_pos_no_range(ms) == ms

trackbar_pos(ms) ==
    IF ms < TrackbarMin THEN TrackbarMin
    ELSE IF ms > TrackbarMax THEN TrackbarMax
    ELSE ms

\* The intervals asked of the trackbar: below, at, inside, at and above
\* its range.
SpeedRequests ==
    {0, TrackbarMin - 1, TrackbarMin, TrackbarMin + 1, 500,
     TrackbarMax - 1, TrackbarMax, TrackbarMax + 1, 65535}

\* Where the head is put, and which positions are passed to ensure_tape,
\* when the tape's methods are called on their own: around the two ends of
\* the initial window.
TapePositions ==
    { InitialTapeOffset - 1, 0, InitialTapeOffset + InitialTapeLen }

EnsurePositions ==
    { InitialTapeOffset - 2, InitialTapeOffset + InitialTapeLen + 1 }

-----------------------------------------------------------------------------
(* The state machine. *)

Init ==
    /\ tape = new.tape
    /\ tape_offset = new.tape_offset
    /\ head_pos = new.head_pos
    /\ current_state = new.current_state
    /\ start_state = new.start_state
    /\ accept_state = new.accept_state
    /\ reject_state = new.reject_state
    /\ transitions = new.transitions
    /\ state_breakpoints = new.state_breakpoints
    /\ step_count = new.step_count
    /\ status = new.status
    /\ timer_speed_ms = new.timer_speed_ms
    /\ timer = 0
    /\ sel = -1
    /\ op = "new"
    /\ ret = FALSE
    /\ at = "none"
    /\ written = {}

\* The history of write_tape calls after one more call, if any.
Record(wrote) ==
    IF wrote.some
    THEN {e \in written : e.pos # wrote.val.pos} \cup {wrote.val}
    ELSE written

\* The event called name has left the window and step() result r.
Handled(r, name) ==
    /\ tape' = r.m.tape
    /\ tape_offset' = r.m.tape_offset
    /\ head_pos' = r.m.head_pos
    /\ current_state' = r.m.current_state
    /\ start_state' = r.m.start_state
    /\ accept_state' = r.m.accept_state
    /\ reject_state' = r.m.reject_state
    /\ transitions' = r.m.transitions
    /\ state_breakpoints' = r.m.state_breakpoints
    /\ step_count' = r.m.step_count
    /\ status' = r.m.status
    /\ timer_speed_ms' = r.m.timer_speed_ms
    /\ timer' = r.timer
    /\ sel' = r.sel
    /\ op' = name
    /\ ret' = r.ret
    /\ at' = r.at

\* Add pressed with ed in the editor.
Add(ed) ==
    /\ Handled(on_add(W, ed), "add")
    /\ written' = written

BtnAdd ==
    /\ Len(transitions) < MaxTransitions
    /\ \E ed \in EditorInputs : Add(ed)

\* The line of the Update handler that changes the table, if one does.
update_branch(w, ed) ==
    IF w.sel >= 0 /\ read_transition_from_editor(ed).some
    THEN "L437" ELSE "none"

\* Update pressed with ed in the editor.
Update(ed) ==
    /\ Handled(At(on_update(W, ed), update_branch(W, ed)), "update")
    /\ written' = written

BtnUpdate == \E ed \in EditorInputs : Update(ed)

\* The line of the Delete handler that changes the table, if one does.
delete_branch(w) ==
    IF w.sel >= 0 /\ w.sel < Len(w.m.transitions) THEN "L445" ELSE "none"

BtnDelete ==
    /\ Handled(At(on_delete(W), delete_branch(W)), "delete")
    /\ written' = written

BtnToggleBp ==
    /\ Handled(Quiet(on_toggle_bp(W)), "toggle_bp")
    /\ written' = written

BtnAddStateBp ==
    /\ \E text \in StateBpInputs :
           Handled(Quiet(on_add_state_bp(W, text)), "state_bp")
    /\ written' = written

BtnStep ==
    /\ step_count < MaxSteps
    /\ LET r == on_step(W) IN
       /\ Handled(r, "btn_step")
       /\ written' = Record(r.wrote)

BtnRun ==
    /\ Handled(Quiet(on_run(W)), "run")
    /\ written' = written

BtnStop ==
    /\ Handled(Quiet(on_stop(W)), "stop")
    /\ written' = written

BtnReset ==
    /\ Handled(Quiet(on_reset(W)), "btn_reset")
    /\ written' = {}

\* WM_TIMER arrives only while ID_TIMER is set.
Timer ==
    /\ timer # 0
    /\ step_count < MaxSteps
    /\ LET r == on_timer(W) IN
       /\ Handled(r, "timer")
       /\ written' = Record(r.wrote)

HScroll ==
    /\ \E pos \in TrackbarPositions :
           Handled(Quiet(on_hscroll(W, pos)), "hscroll")
    /\ written' = written

Paint ==
    /\ Handled(Quiet(on_paint(W)), "paint")
    /\ written' = written

\* The user selects row i of the list view, or none.
Select ==
    /\ \E i \in -1..(Len(transitions) - 1) :
           /\ i # sel
           /\ Handled(Quiet([W EXCEPT !.sel = i]), "select")
    /\ written' = written

Next ==
    \/ BtnAdd
    \/ BtnUpdate
    \/ BtnDelete
    \/ BtnToggleBp
    \/ BtnAddStateBp
    \/ BtnStep
    \/ BtnRun
    \/ BtnStop
    \/ BtnReset
    \/ Timer
    \/ HScroll
    \/ Paint
    \/ Select

\* The program: the window procedure handling one message after another.
Spec == Init /\ [][Next]_vars

(* The engine's methods called on their own, as a caller or a unit test    *)
(* of TuringMachine may, between the window's events.                      *)

CallStep ==
    /\ step_count < MaxSteps
    /\ LET r == step(TM) IN
       /\ Handled(Stepped([W EXCEPT !.m = r.m], r), "step")
       /\ written' = Record(r.wrote)

CallReset ==
    /\ Handled(Quiet([W EXCEPT !.m = reset(@)]), "reset")
    /\ written' = {}

EngineNext ==
    \/ BtnAdd
    \/ BtnUpdate
    \/ BtnDelete
    \/ BtnToggleBp
    \/ BtnAddStateBp
    \/ Select
    \/ BtnRun
    \/ BtnReset
    \/ CallStep
    \/ CallReset

EngineSpec == Init /\ [][EngineNext]_vars

(* The tape's methods called on their own, with the head position as the   *)
(* input: read(head), write(head, symbol) and ensure(pos) of the tape.     *)

\* The caller puts the head at position p.
Seek ==
    /\ \E p \in TapePositions :
           /\ p # head_pos
           /\ Handled(Quiet([W EXCEPT !.m.head_pos = p]), "seek")
    /\ written' = written

CallWrite ==
    \E sym \in Symbol :
        /\ Handled(Quiet([W EXCEPT !.m = write_tape(@, sym)]), "write_tape")
        /\ written' = Record(Some([pos |-> head_pos, sym |-> sym]))

CallRead ==
    /\ Handled(Quiet([W EXCEPT !.m = read_tape(@).m]), "read_tape")
    /\ written' = written

\* The line of ensure_tape(pos) that grows the tape, if one does.
ensure_branch(m, pos) ==
    LET idx == pos - m.tape_offset IN
    IF idx < 0 THEN "L193" ELSE IF idx >= Len(m.tape) THEN "L195" ELSE "none"

\* ensure_tape(pos) called on its own.
Ensure(pos) ==
    /\ Handled(At([W EXCEPT !.m = ensure_tape(@, pos)],
                  ensure_branch(TM, pos)), "ensure_tape")
    /\ written' = written

CallEnsure == \E pos \in EnsurePositions : Ensure(pos)

TapeNext ==
    \/ Seek
    \/ CallWrite
    \/ CallRead
    \/ CallEnsure
    \/ Paint
    \/ CallReset

TapeSpec == Init /\ [][TapeNext]_vars

(* The state-breakpoint set edited with several names, between Run, Stop   *)
(* and speed changes.                                                      *)

\* What the state-breakpoint edit box may hold: three names, one of them
\* with and without blanks around it, and a blank box.
StateBpTexts ==
    StateBpInputs \cup {q0, qa, q1, <<"q", "1", " ">>}

\* The line of the handler that changes the set, if one does.
state_bp_branch(m, text) ==
    LET state == trim(text) IN
    IF state = <<>> THEN "none"
    ELSE IF state \in m.state_breakpoints THEN "L491" ELSE "L493"

\* Add/Rm BP pressed with text in the edit box.
ToggleStateBp(text) ==
    /\ Handled(At(on_add_state_bp(W, text), state_bp_branch(TM, text)),
               "state_bp")
    /\ written' = written

BtnAddStateBpAny == \E text \in StateBpTexts : ToggleStateBp(text)

BreakpointNext ==
    \/ BtnAddStateBpAny
    \/ BtnRun
    \/ BtnStop
    \/ HScroll

BreakpointSpec == Init /\ [][BreakpointNext]_vars

(* The speed set to any interval asked for, between the run commands.      *)

\* The trackbar is asked for ms and sends WM_HSCROLL; the handler reads its
\* position.
SetSpeed(ms) ==
    /\ Handled(At(on_hscroll(W, trackbar_pos(ms)),
                  IF trackbar_pos(ms) # ms THEN "L936" ELSE "L586"),
               "set_speed")
    /\ written' = written

TrackbarMoved == \E ms \in SpeedRequests : SetSpeed(ms)

SpeedNext ==
    \/ TrackbarMoved
    \/ BtnRun
    \/ BtnStop
    \/ BtnReset
    \/ BtnStep
    \/ Timer
    \/ BtnAddStateBp

SpeedSpec == Init /\ [][SpeedNext]_vars

(* Breakpoints set on the way into the accept and the reject state: one    *)
(* transition out of q0 on Blank, the breakpoint toggled on it, and the    *)
(* accept, reject and q1 names put in the state-breakpoint set.            *)

TerminalEditorInputs ==
    { Ed(q0, 2, qa, 1, 1),      \* (q0,_) -> (qa,1,R)
      Ed(q0, 2, qr, 0, 0),      \* (q0,_) -> (qr,0,L)
      Ed(q0, 2, q1, 1, 1) }     \* (q0,_) -> (q1,1,R)

TerminalBpTexts == {qa, qr, q1}

AddTerminal == \E ed \in TerminalEditorInputs : Add(ed)

ToggleTerminalBp == \E text \in TerminalBpTexts : ToggleStateBp(text)

PriorityNext ==
    \/ AddTerminal
    \/ BtnDelete
    \/ BtnToggleBp
    \/ Select
    \/ ToggleTerminalBp
    \/ CallStep
    \/ CallReset

PrioritySpec == Init /\ [][PriorityNext]_vars

(* Machines that walk the head to the left and to the right of position 0, *)
(* entered and run through the window.                                     *)

WalkEditorInputs ==
    { Ed(q0, 2, q0, 1, 0),      \* (q0,_) -> (q0,1,L)
      Ed(q0, 2, q1, 0, 1),      \* (q0,_) -> (q1,0,R)
      Ed(q1, 2, q0, 2, 0),      \* (q1,_) -> (q0,_,L)
      Ed(q1, 2, q1, 1, 1) }     \* (q1,_) -> (q1,1,R)

AddWalk ==
    /\ Len(transitions) < MaxTransitions
    /\ \E ed \in WalkEditorInputs : Add(ed)

WalkNext ==
    \/ AddWalk
    \/ BtnDelete
    \/ Select
    \/ BtnStep
    \/ BtnRun
    \/ BtnStop
    \/ BtnReset
    \/ Timer

WalkSpec == Init /\ [][WalkNext]_vars

(* A run of the unary increment machine: the table is entered through Add, *)
(* the input string is written on the tape from position 0 with write_tape *)
(* and the head is put back on position 0; then step() is called.          *)

UnaryEditor ==
    << Ed(q0, 0, q0, 0, 1),     \* (q0,0) -> (q0,0,R)
       Ed(q0, 1, q0, 1, 1),     \* (q0,1) -> (q0,1,R)
       Ed(q0, 2, qa, 1, 1) >>   \* (q0,_) -> (qa,1,R)

UnaryMachine ==
    on_add(on_add(on_add([m |-> new, timer |-> 0, sel |-> -1],
                         UnaryEditor[1]), UnaryEditor[2]), UnaryEditor[3]).m

UnaryInputs == UNION {[1..n -> {"Zero", "One"}] : n \in 0..MaxInput}

\* Symbols k.. of input written at positions k-1.., the head back on 0.
RECURSIVE load(_, _, _)
load(m, input, k) ==
    IF k > Len(input) THEN [m EXCEPT !.head_pos = 0]
    ELSE load(write_tape([m EXCEPT !.head_pos = k - 1], input[k]),
              input, k + 1)

UnaryInit ==
    \E input \in UnaryInputs :
        LET m == load(UnaryMachine, input, 1) IN
        /\ tape = m.tape
        /\ tape_offset = m.tape_offset
        /\ head_pos = m.head_pos
        /\ current_state = m.current_state
        /\ start_state = m.start_state
        /\ accept_state = m.accept_state
        /\ reject_state = m.reject_state
        /\ transitions = m.transitions
        /\ state_breakpoints = m.state_breakpoints
        /\ step_count = m.step_count
        /\ status = m.status
        /\ timer_speed_ms = m.timer_speed_ms
        /\ timer = 0
        /\ sel = -1
        /\ op = "load"
        /\ ret = FALSE
        /\ at = "none"
        /\ written = {[pos |-> k - 1, sym |-> input[k]] : k \in 1..Len(input)}

UnaryNext ==
    \/ CallStep
    \/ CallReset

UnarySpec == UnaryInit /\ [][UnaryNext]_vars

(* The tape's methods and step() called on their own on a machine that    *)
(* holds the unary increment table, the head put around the window's ends. *)

WindowInit ==
    LET m == UnaryMachine IN
    /\ tape = m.tape
    /\ tape_offset = m.tape_offset
    /\ head_pos = m.head_pos
    /\ current_state = m.current_state
    /\ start_state = m.start_state
    /\ accept_state = m.accept_state
    /\ reject_state = m.reject_state
    /\ transitions = m.transitions
    /\ state_breakpoints = m.state_breakpoints
    /\ step_count = m.step_count
    /\ status = m.status
    /\ timer_speed_ms = m.timer_speed_ms
    /\ timer = 0
    /\ sel = -1
    /\ op = "new"
    /\ ret = FALSE
    /\ at = "none"
    /\ written = {}

\* write_tape called on its own, on a tape with few written positions.
WriteFew ==
    /\ Cardinality(written) < MaxWrites
    /\ CallWrite

WindowNext ==
    \/ Seek
    \/ WriteFew
    \/ CallRead
    \/ CallEnsure
    \/ Paint
    \/ CallStep
    \/ CallReset

WindowSpec == WindowInit /\ [][WindowNext]_vars

-----------------------------------------------------------------------------
(* Properties.  They are stated on the variables, not through the          *)
(* operators above, wherever the claim is about what those operators do.   *)

\* How far beyond the initial window the tape is looked at.
ProbeMargin == 16

ProbePositions ==
    (InitialTapeOffset - ProbeMargin) ..
        (InitialTapeOffset + InitialTapeLen - 1 + ProbeMargin)

\* The symbol at absolute position p: the cell of the window that holds p,
\* Blank where the window has no cell yet.
CellOf(p) ==
    IF tape_offset <= p /\ p < tape_offset + Len(tape)
    THEN tape[p - tape_offset + 1]
    ELSE "Blank"

Terminal == {"Accepted", "Rejected"}

\* The rows of the table for (current state, symbol under the head).
Matching ==
    {i \in 1..Len(transitions) :
        /\ transitions[i].current_state = current_state
        /\ transitions[i].read_symbol = CellOf(head_pos)}

\* The transition step() is to carry out: the first matching row.
Rule ==
    transitions[CHOOSE i \in Matching : \A j \in Matching : i <= j]

\* step() is called in a state where it carries a transition out.
Executes ==
    /\ op' = "step"
    /\ status \notin Terminal
    /\ current_state \notin {accept_state, reject_state}
    /\ Matching # {}

\* The transition t is fully applied by this step.
Applied(t) ==
    /\ \A h \in {head_pos} : CellOf(h)' = t.write_symbol
    /\ \A p \in ProbePositions \ {head_pos} : CellOf(p)' = CellOf(p)
    /\ current_state' = t.new_state
    /\ head_pos' = IF t.direction = "Left" THEN head_pos - 1 ELSE head_pos + 1
    /\ step_count' = step_count + 1

\* The all-blank machine new() and reset() leave.
Fresh ==
    /\ \A p \in ProbePositions : CellOf(p) = "Blank"
    /\ head_pos = 0
    /\ current_state = q0
    /\ step_count = 0
    /\ status = "Idle"

\* C1: step() called with status Accepted or Rejected returns false and
\* changes no field of the engine: tape, head, state, step counter, status,
\* table, state breakpoints.
C1_HaltedStepChangesNothing ==
    [][(op' = "step" /\ status \in Terminal)
         => (ret' = FALSE /\ UNCHANGED engine_vars)]_vars

\* step() has just returned at once from status Rejected, although the table
\* holds a transition for the current state and symbol.
C1_Witness ==
    /\ op = "step"
    /\ at = "L218"
    /\ status = "Rejected"
    /\ ret = FALSE
    /\ Matching # {}

\* C2: a step that carries out a transition into the accept state sets
\* status Accepted, one into the reject state sets Rejected; both return
\* false and count exactly one step.  From the fresh machine with the table
\* {(q0,Blank)->(qa,Blank,Right)}, one step gives Accepted and 1 step.
C2_EnteringAcceptOrReject ==
    [][/\ (Executes /\ Rule.new_state = accept_state)
            => (status' = "Accepted" /\ ret' = FALSE
                /\ step_count' = step_count + 1)
       /\ (Executes /\ Rule.new_state = reject_state)
            => (status' = "Rejected" /\ ret' = FALSE
                /\ step_count' = step_count + 1)
       /\ (/\ op' = "step"
           /\ Fresh
           /\ Len(transitions) = 1
           /\ transitions[1].current_state = q0
           /\ transitions[1].read_symbol = "Blank"
           /\ transitions[1].new_state = qa
           /\ transitions[1].write_symbol = "Blank"
           /\ transitions[1].direction = "Right")
            => (status' = "Accepted" /\ step_count' = 1)]_vars

\* One step of the fresh machine with that table has ended in Accepted.
C2_Witness ==
    /\ op = "step"
    /\ at = "L243"
    /\ status = "Accepted"
    /\ ret = FALSE
    /\ step_count = 1
    /\ current_state = qa
    /\ Len(transitions) = 1

\* C3: a step from a non-terminal status in a state that is neither the
\* accept nor the reject state and has no transition for the symbol under
\* the head sets status Rejected, returns false and leaves the head, the
\* state, the step counter and every tape symbol as they were.
C3_NoTransitionRejects ==
    [][(/\ op' = "step"
        /\ status \notin Terminal
        /\ current_state \notin {accept_state, reject_state}
        /\ Matching = {})
         => (/\ status' = "Rejected"
             /\ ret' = FALSE
             /\ UNCHANGED <<head_pos, current_state, step_count>>
             /\ \A p \in ProbePositions : CellOf(p)' = CellOf(p))]_vars

\* One step of the fresh machine with the empty table has ended in Rejected
\* with no step counted.
C3_Witness ==
    /\ op = "step"
    /\ at = "L258"
    /\ status = "Rejected"
    /\ ret = FALSE
    /\ step_count = 0
    /\ head_pos = 0
    /\ transitions = <<>>

\* C4: a step that carries out a transition with has_breakpoint into a state
\* that is neither accept nor reject applies it in full (symbol, state,
\* head, one step counted), returns false and leaves status as it was.
C4_TransitionBreakpointPauses ==
    [][(/\ Executes
        /\ Rule.has_breakpoint
        /\ Rule.new_state \notin {accept_state, reject_state})
         => (Applied(Rule) /\ ret' = FALSE /\ status' = status)]_vars

\* A step taken while Running has paused on a transition's breakpoint, no
\* state breakpoint being set, and status is still Running.
C4_Witness ==
    /\ op = "step"
    /\ at = "L252"
    /\ ret = FALSE
    /\ status = "Running"
    /\ state_breakpoints = {}
    /\ step_count > 0

\* C5: a step that carries out a transition without has_breakpoint pauses
\* (returns false, status as it was, transition applied) when the state it
\* enters is in the state-breakpoint set and is neither accept nor reject;
\* the state it leaves being in the set does not pause it.
C5_StateBreakpointPausesOnEntry ==
    [][/\ (/\ Executes
           /\ ~Rule.has_breakpoint
           /\ Rule.new_state \in state_breakpoints
           /\ Rule.new_state \notin {accept_state, reject_state})
            => (Applied(Rule) /\ ret' = FALSE /\ status' = status)
       /\ (/\ Executes
           /\ ~Rule.has_breakpoint
           /\ current_state \in state_breakpoints
           /\ Rule.new_state \notin state_breakpoints
           /\ Rule.new_state \notin {accept_state, reject_state})
            => (Applied(Rule) /\ ret' = TRUE /\ status' = status)]_vars

\* A step has paused on entering a state of the state-breakpoint set, no
\* transition of the table carrying a breakpoint.
C5_Witness ==
    /\ op = "step"
    /\ at = "L252"
    /\ ret = FALSE
    /\ current_state \in state_breakpoints
    /\ \A i \in 1..Len(transitions) : ~transitions[i].has_breakpoint

\* C6: reset() leaves step counter 0, status Idle, the start state, head 0
\* and Blank at every tape position; the transition table (order, contents,
\* breakpoint flags) and the state-breakpoint set are as before.
C6_ResetRestoresRunState ==
    [][(op' \in {"reset", "btn_reset"})
         => (/\ step_count' = 0
             /\ status' = "Idle"
             /\ current_state' = start_state
             /\ head_pos' = 0
             /\ \A p \in ProbePositions : CellOf(p)' = "Blank"
             /\ transitions' = transitions
             /\ state_breakpoints' = state_breakpoints)]_vars

\* reset() has just been called on a Running machine (its timer is still
\* set) whose table has a row with a breakpoint and whose state-breakpoint
\* set is not empty.
C6_Witness ==
    /\ op = "reset"
    /\ timer # 0
    /\ status = "Idle"
    /\ \E i \in 1..Len(transitions) : transitions[i].has_breakpoint
    /\ state_breakpoints # {}

\* C7: Add with the transition t in the editor appends t at the end of the
\* table when no row has t's (current_state, read_symbol), and leaves the
\* table as it is when one has.
C7_AddRejectsDuplicateKey ==
    [][\A ed \in EditorInputs :
          LET t == read_transition_from_editor(ed) IN
          (op' = "add" /\ t.some /\ Add(ed))
            => IF \E i \in 1..Len(transitions) :
                     /\ transitions[i].current_state = t.val.current_state
                     /\ transitions[i].read_symbol = t.val.read_symbol
               THEN transitions' = transitions
               ELSE transitions' = Append(transitions, t.val)]_vars

\* Add has just turned a transition down because its key was in the table.
C7_Witness ==
    /\ op = "add"
    /\ at = "L424"
    /\ Len(transitions) >= 1

\* C8: the table never holds two transitions with the same
\* (current_state, read_symbol).
C8_AtMostOneTransitionPerKey ==
    \A i, j \in 1..Len(transitions) :
        (/\ transitions[i].current_state = transitions[j].current_state
         /\ transitions[i].read_symbol = transitions[j].read_symbol)
          => i = j

\* The symbol last written at p since new() or the last reset(), Blank if
\* none was.
LastWritten(p) ==
    IF \E e \in written : e.pos = p
    THEN (CHOOSE e \in written : e.pos = p).sym
    ELSE "Blank"

\* What read_tape() returns with the head at p.
ReadAt(p) == read_tape([TM EXCEPT !.head_pos = p]).sym

\* C9: reading any position returns the symbol last written there since
\* construction or the last reset, Blank if none was, whatever writes and
\* growth of the tape came between.
C9_ReadReturnsLastWritten ==
    \A p \in ProbePositions : ReadAt(p) = LastWritten(p)

\* The tape has grown at both ends, holds a non-blank symbol written below
\* the initial window and another written at or above position 0, and has
\* just been read.
C9_Witness ==
    /\ op = "read_tape"
    /\ tape_offset < InitialTapeOffset
    /\ tape_offset + Len(tape) > InitialTapeOffset + InitialTapeLen
    /\ \E e \in written : e.pos < InitialTapeOffset /\ e.sym # "Blank"
    /\ \E e \in written : e.pos >= 0 /\ e.sym # "Blank"

\* C10: when the tape grows to the left, every symbol written before is
\* still read at its position, and the window's offset has moved down by
\* the number of cells put in front.
C10_LeftGrowthKeepsSymbols ==
    [][(tape_offset' < tape_offset)
         => (/\ \A e \in written : ReadAt(e.pos)' = e.sym
             /\ Len(tape') - Len(tape) = tape_offset - tape_offset')]_vars

\* ensure_tape has just put cells in front of a tape on which a non-blank
\* symbol had been written.
C10_Witness ==
    /\ op = "ensure_tape"
    /\ at = "L193"
    /\ tape_offset < InitialTapeOffset
    /\ \E e \in written : e.sym # "Blank" /\ e.pos > tape_offset

\* The unary increment machine on the input 11 after k steps, the cell at
\* position 2 holding sym: head on k, every other cell Blank.
Unary11(k, sym) ==
    /\ transitions = UnaryMachine.transitions
    /\ CellOf(0) = "One"
    /\ CellOf(1) = "One"
    /\ CellOf(2) = sym
    /\ \A p \in ProbePositions \ {0, 1, 2} : CellOf(p) = "Blank"
    /\ head_pos = k
    /\ step_count = k

\* C11: the unary increment machine started in q0 with the head on 0 of the
\* tape 11 takes exactly 3 calls of step() to reach Accepted: the first two
\* return true and leave it in q0 and not terminal, the third returns false
\* with status Accepted, step counter 3 and One at position 2.
C11_UnaryIncrementAccepts ==
    [][/\ (op' = "step" /\ Unary11(0, "Blank")
              /\ current_state = q0 /\ status = "Idle")
            => (ret' = TRUE /\ Unary11(1, "Blank")'
                /\ current_state' = q0 /\ status' = "Idle")
       /\ (op' = "step" /\ Unary11(1, "Blank")
              /\ current_state = q0 /\ status = "Idle")
            => (ret' = TRUE /\ Unary11(2, "Blank")'
                /\ current_state' = q0 /\ status' = "Idle")
       /\ (op' = "step" /\ Unary11(2, "Blank")
              /\ current_state = q0 /\ status = "Idle")
            => (ret' = FALSE /\ Unary11(3, "One")'
                /\ current_state' = qa /\ status' = "Accepted")]_vars

\* The third step of that run has just ended in Accepted.
C11_Witness ==
    /\ op = "step"
    /\ at = "L243"
    /\ ret = FALSE
    /\ Unary11(3, "One")
    /\ status = "Accepted"
    /\ written = {[pos |-> 0, sym |-> "One"], [pos |-> 1, sym |-> "One"],
                  [pos |-> 2, sym |-> "One"]}

\* The events that call reset().
ResetOps == {"reset", "btn_reset"}

\* C12: the step counter is never negative, no operation but reset makes it
\* smaller, and only reset takes it from a positive value back to 0.
C12_StepCounterMonotonic ==
    /\ step_count >= 0
    /\ [][/\ step_count' >= 0
          /\ (op' \notin ResetOps) => (step_count' >= step_count)
          /\ (step_count > 0 /\ step_count' = 0) => (op' \in ResetOps)]_vars

\* Run has just been pressed on a machine that has counted steps.
C12_Witness ==
    /\ op = "run"
    /\ step_count >= 2
    /\ status = "Running"

\* C13: from status Accepted or Rejected, every event but Reset (Step, Run,
\* Stop, timer tick, speed change, add, update, delete, breakpoint toggles,
\* paint, selection) leaves the status, the current state, the head, the
\* step counter and the symbol at every tape position as they were.
C13_TerminalStatusIsStable ==
    [][(status \in Terminal /\ op' \notin ResetOps)
         => (/\ status' = status
             /\ UNCHANGED <<current_state, head_pos, step_count>>
             /\ \/ UNCHANGED <<tape, tape_offset>>
                \/ \A p \in ProbePositions : CellOf(p)' = CellOf(p))]_vars

\* Run has just been pressed on an Accepted machine that has counted steps;
\* the timer is not set.
C13_Witness ==
    /\ op = "run"
    /\ status = "Accepted"
    /\ timer = 0
    /\ step_count > 0

\* C14: Stop leaves the timer not set, status Idle when it was Running or
\* Idle, the status it had when that was Accepted or Rejected, and every
\* other field of the engine as it was.
C14_StopDisarmsTimer ==
    [][(op' = "stop")
         => (/\ timer' = 0
             /\ status' = IF status \in {"Running", "Idle"}
                           THEN "Idle" ELSE status
             /\ UNCHANGED <<tape, tape_offset, head_pos, current_state,
                            start_state, accept_state, reject_state,
                            transitions, state_breakpoints, step_count,
                            timer_speed_ms>>)]_vars

\* Stop has just been pressed on a machine that has counted steps and is
\* now Idle.
C14_Witness ==
    /\ op = "stop"
    /\ status = "Idle"
    /\ timer = 0
    /\ step_count > 0
    /\ transitions # <<>>

\* The step() of a timer tick carries a transition out into a state that is
\* neither the accept nor the reject state.
TickStaysInside ==
    /\ status \notin Terminal
    /\ current_state \notin {accept_state, reject_state}
    /\ Matching # {}
    /\ Rule.new_state \notin {accept_state, reject_state}

\* C15: after a timer tick whose step() returned false the timer is not
\* set and status is Idle when the step stopped at a breakpoint (it carried
\* a transition out and did not become terminal) and Accepted or Rejected
\* otherwise; after a tick whose step() returned true the timer is set as
\* before and status is Running.
C15_TimerTickOutcome ==
    [][(op' = "timer")
         => IF ret' = FALSE
            THEN /\ timer' = 0
                 /\ status' # "Running"
                 /\ TickStaysInside => status' = "Idle"
                 /\ ~TickStaysInside => status' \in Terminal
            ELSE /\ timer' = timer
                 /\ timer' # 0
                 /\ status' = "Running"]_vars

\* A timer tick has just stopped at a breakpoint: the timer is not set and
\* status is Idle.
C15_Witness ==
    /\ op = "timer"
    /\ at = "L252"
    /\ ret = FALSE
    /\ status = "Idle"
    /\ timer = 0

\* C16: in every state the window can get to by Step, Run, Stop, Reset,
\* speed changes, table and breakpoint edits and timer ticks, the timer is
\* set exactly when status is Running; so the step() of a timer tick is
\* never called with status Idle, Accepted or Rejected.
C16_TimerArmedIffRunning ==
    /\ []((timer # 0) <=> (status = "Running"))
    /\ [][(op' = "timer") => (status = "Running")]_vars

\* The speed has just been changed on a Running machine that has counted a
\* step: the timer is set again, with the new interval.
C16_Witness ==
    /\ op = "hscroll"
    /\ status = "Running"
    /\ timer = TrackbarMin
    /\ step_count > 0

\* C17: Add/Rm BP with a name puts the name in the state-breakpoint set when
\* it is not there and takes it out when it is, every other name staying in
\* or out as it was; pressing it twice with the same name gives the set
\* there was before.
C17_ToggleStateBreakpoint ==
    /\ [][\A text \in StateBpTexts :
             (op' = "state_bp" /\ trim(text) # <<>> /\ ToggleStateBp(text))
               => state_breakpoints' =
                     IF trim(text) \in state_breakpoints
                     THEN state_breakpoints \ {trim(text)}
                     ELSE state_breakpoints \cup {trim(text)}]_vars
    /\ [](\A text \in StateBpTexts :
             on_add_state_bp(on_add_state_bp(W, text), text)
                 .m.state_breakpoints = state_breakpoints)

\* A name has just been taken out of a set that holds two other names.
C17_Witness ==
    /\ op = "state_bp"
    /\ at = "L491"
    /\ state_breakpoints = {q0, qa}

\* C18: Delete with row i selected, i a valid index, takes exactly that row
\* out: the table is one shorter, the rows before i are as they were and
\* each row j after i is now row j-1.
C18_DeleteRemovesSelectedRow ==
    [][(op' = "delete" /\ sel >= 0 /\ sel < Len(transitions))
         => (/\ Len(transitions') = Len(transitions) - 1
             /\ \A j \in 0..(sel - 1) :
                    transitions'[j + 1] = transitions[j + 1]
             /\ \A j \in (sel + 1)..(Len(transitions) - 1) :
                    transitions'[j] = transitions[j + 1])]_vars

\* Delete has just taken a row out and left a row with a breakpoint.
C18_Witness ==
    /\ op = "delete"
    /\ at = "L445"
    /\ Len(transitions) >= 1
    /\ transitions[1].has_breakpoint

C20_PaintOnlyMaterializesBlanks ==
    [][(op' = "paint")
         => (/\ UNCHANGED <<head_pos, current_state, step_count, status>>
             /\ tape_offset' <= tape_offset
             /\ tape_offset' + Len(tape') >= tape_offset + Len(tape)
             /\ \A i \in 1..Len(tape') :
                    LET p == tape_offset' + i - 1 IN
                    tape'[i] = CellOf(p))]_vars

\* Painting with the head below the initial window has just put cells in
\* front of a tape that holds a written non-blank symbol.
C20_Witness ==
    /\ op = "paint"
    /\ head_pos < InitialTapeOffset
    /\ tape_offset = head_pos - num_cells \div 2
    /\ \E e \in written : e.sym # "Blank" /\ CellOf(e.pos) = e.sym

\* The absolute positions the tape has a cell for.
Covered == tape_offset .. (tape_offset + Len(tape) - 1)

\* The events that access the tape.
TapeOps == {"ensure_tape", "read_tape", "write_tape", "step", "paint"}

\* C21: after ensure, read, write, step or painting, the tape has a cell
\* for every position it had one for before and for the position accessed:
\* the one passed to ensure, the head's for read, write and a step that
\* reads the tape, each of the cells drawn for painting.
C21_WindowGrowsMonotonically ==
    [][(op' \in TapeOps)
         => (/\ Covered \subseteq Covered'
             /\ (op' \in {"read_tape", "write_tape"}) => (head_pos \in Covered')
             /\ (/\ op' = "step"
                 /\ status \notin Terminal
                 /\ current_state \notin {accept_state, reject_state})
                  => (head_pos \in Covered')
             /\ (op' = "paint")
                  => \A i \in 0..(num_cells - 1) :
                         (head_pos - num_cells \div 2 + i) \in Covered'
             /\ \A pos \in EnsurePositions :
                    (op' = "ensure_tape" /\ Ensure(pos))
                      => (pos \in Covered'))]_vars

\* A step taken with the head one cell below the window has just written
\* there: the window now starts at that cell.
C21_Witness ==
    /\ op = "step"
    /\ at = "L243"
    /\ step_count = 1
    /\ tape_offset = InitialTapeOffset - 1
    /\ head_pos = InitialTapeOffset
    /\ written = {[pos |-> tape_offset, sym |-> "One"]}

\* C22: a step that finds a transition t for (current state, symbol under
\* the head) with the head at h leaves t.write_symbol at h, every other
\* position's symbol as it was, current state t.new_state, the head at h-1
\* for Left and h+1 for Right, and the step counter one higher.
C22_StepCarriesTransitionOut ==
    [][Executes => Applied(Rule)]_vars

\* A step has just moved the head left, back to position 0, after writing
\* Zero at position 1, and may continue.
C22_Witness ==
    /\ op = "step"
    /\ at = "L254"
    /\ ret = TRUE
    /\ step_count = 2
    /\ head_pos = 0
    /\ [pos |-> 1, sym |-> "Zero"] \in written

\* C23: step() returns true exactly when the status was not terminal, a
\* transition for (current state, symbol under the head) was carried out,
\* its new state is neither the accept nor the reject state, it has no
\* breakpoint and its new state is not in the state-breakpoint set; and a
\* call that returns true leaves the status as it was.
C23_StepReturnsTrueIff ==
    [][(op' = "step")
         => (/\ (ret' = TRUE)
                  <=> (/\ status \notin Terminal
                       /\ current_state \notin {accept_state, reject_state}
                       /\ Matching # {}
                       /\ Rule.new_state \notin {accept_state, reject_state}
                       /\ ~Rule.has_breakpoint
                       /\ Rule.new_state \notin state_breakpoints)
             /\ (ret' = TRUE) => (status' = status))]_vars

\* A step taken while Running has just returned true although the table has
\* a row with a breakpoint and the state-breakpoint set is not empty.
C23_Witness ==
    /\ op = "step"
    /\ ret = TRUE
    /\ status = "Running"
    /\ state_breakpoints # {}
    /\ \E i \in 1..Len(transitions) : transitions[i].has_breakpoint

\* The transition step() is to carry out has a breakpoint, or leads to a
\* state of the state-breakpoint set.
RuleHasBreakpoint ==
    Rule.has_breakpoint \/ Rule.new_state \in state_breakpoints

\* C24: a step that carries out a transition with a breakpoint, or into a
\* state of the state-breakpoint set, sets status Accepted when that state
\* is the accept state and Rejected when it is the reject state, and does
\* not leave the status as it was.
C24_TerminalBeforeBreakpoint ==
    [][/\ (Executes /\ RuleHasBreakpoint /\ Rule.new_state = accept_state)
            => (status' = "Accepted" /\ status' # status /\ ret' = FALSE)
       /\ (Executes /\ RuleHasBreakpoint /\ Rule.new_state = reject_state)
            => (status' = "Rejected" /\ status' # status /\ ret' = FALSE)]_vars

\* A step has just ended in Rejected through a transition with a breakpoint
\* into the reject state, which is in the state-breakpoint set.
C24_Witness ==
    /\ op = "step"
    /\ at = "L247"
    /\ status = "Rejected"
    /\ reject_state \in state_breakpoints
    /\ Len(transitions) = 1
    /\ transitions[1].has_breakpoint
    /\ transitions[1].new_state = reject_state

\* C25: ensure(pos) with pos below the lowest position the tape has a cell
\* for leaves pos the lowest and the highest as it was; with pos above the
\* highest, leaves pos the highest and the lowest as it was; with pos
\* covered, leaves the tape as it was.
C25_EnsureAddsExactlyTheCellsNeeded ==
    [][\A pos \in EnsurePositions :
          (op' = "ensure_tape" /\ Ensure(pos))
            => LET lo == tape_offset
                   hi == tape_offset + Len(tape) - 1
               IN IF pos < lo
                  THEN /\ tape_offset' = pos
                       /\ tape_offset' + Len(tape') - 1 = hi
                  ELSE IF pos > hi
                  THEN /\ tape_offset' + Len(tape') - 1 = pos
                       /\ tape_offset' = lo
                  ELSE UNCHANGED <<tape, tape_offset>>]_vars

\* ensure_tape has just put cells after a tape that had grown in front: the
\* window runs from two below to two above the initial one.
C25_Witness ==
    /\ op = "ensure_tape"
    /\ at = "L195"
    /\ tape_offset = InitialTapeOffset - 2
    /\ tape_offset + Len(tape) - 1 = InitialTapeOffset + InitialTapeLen + 1

\* C26: no call of step() changes the transition table (its order, its
\* rows, their breakpoint flags), the state-breakpoint set or the start,
\* accept and reject state names.
C26_StepKeepsTableAndBreakpoints ==
    [][(op' = "step")
         => UNCHANGED <<transitions, state_breakpoints, start_state,
                        accept_state, reject_state>>]_vars

\* A step has just paused at a breakpoint on a machine with two rows, one
\* of them with a breakpoint, and a name in the state-breakpoint set.
C26_Witness ==
    /\ op = "step"
    /\ at = "L252"
    /\ Len(transitions) = 2
    /\ \E i \in 1..2 : transitions[i].has_breakpoint
    /\ \E i \in 1..2 : ~transitions[i].has_breakpoint
    /\ state_breakpoints # {}

\* C27: with start q0, accept qa and reject qr, in every state the window's
\* events lead to, status is Accepted exactly when the current state is the
\* accept state, and is Rejected whenever the current state is the reject
\* state; so no step() returns from its pre-checks (lines 220-227).
C27_StatusMatchesCurrentState ==
    /\ start_state = q0 /\ accept_state = qa /\ reject_state = qr
    /\ (status = "Accepted") <=> (current_state = accept_state)
    /\ (current_state = reject_state) => (status = "Rejected")
    /\ at \notin {"L222", "L226"}

\* A timer tick has just ended in Rejected for lack of a transition, in a
\* state that is not the reject state.
C27_Witness ==
    /\ op = "timer"
    /\ at = "L258"
    /\ status = "Rejected"
    /\ current_state = q1
    /\ step_count > 0

\* C28: in every state the head is no further from position 0 than the
\* step counter and of the same parity as it; an event other than reset
\* that moves the head moves it by one cell and counts one step.
C28_HeadWithinStepCount ==
    /\ [](/\ head_pos <= step_count
           /\ -head_pos <= step_count
           /\ (head_pos + step_count) % 2 = 0)
    /\ [][(head_pos' # head_pos /\ op' \notin ResetOps)
             => (/\ head_pos' - head_pos \in {-1, 1}
                 /\ step_count' = step_count + 1)]_vars

\* A timer tick has just moved the head left to position -2, the second
\* step of the run.
C28_Witness ==
    /\ op = "timer"
    /\ head_pos = -2
    /\ step_count = 2
    /\ status = "Running"

\* C29: the row Add appends and the row Update stores have has_breakpoint
\* false, whatever flag the row Update replaces had; Update stores the
\* editor's transition at the selected row and leaves the other rows; and a
\* row with has_breakpoint true is either a row there was before, flag
\* included, or the result of the breakpoint toggle.
C29_AddAndUpdateStoreNoBreakpoint ==
    [][/\ \A ed \in EditorInputs :
             LET t == read_transition_from_editor(ed) IN
             /\ (/\ op' = "add" /\ t.some /\ Add(ed)
                 /\ Len(transitions') > Len(transitions))
                  => ~transitions'[Len(transitions')].has_breakpoint
             /\ (op' = "update" /\ t.some /\ sel >= 0 /\ Update(ed))
                  => (/\ ~transitions'[sel + 1].has_breakpoint
                      /\ transitions'[sel + 1].current_state
                             = t.val.current_state
                      /\ transitions'[sel + 1].read_symbol
                             = t.val.read_symbol
                      /\ transitions'[sel + 1].new_state = t.val.new_state
                      /\ transitions'[sel + 1].write_symbol
                             = t.val.write_symbol
                      /\ transitions'[sel + 1].direction = t.val.direction
                      /\ Len(transitions') = Len(transitions)
                      /\ \A j \in 1..Len(transitions) :
                             (j # sel + 1) => (transitions'[j] = transitions[j]))
       /\ \A i \in 1..Len(transitions') :
             transitions'[i].has_breakpoint
               => (\/ op' = "toggle_bp"
                   \/ \E j \in 1..Len(transitions) :
                          transitions[j] = transitions'[i])]_vars

\* Update has just stored the editor's transition in a table whose other
\* row has a breakpoint.
C29_Witness ==
    /\ op = "update"
    /\ at = "L437"
    /\ Len(transitions) = 2
    /\ \E i \in 1..2 : transitions[i].has_breakpoint
    /\ \E i \in 1..2 : ~transitions[i].has_breakpoint

=============================================================================
